---------------------------- MODULE Spec2Model ----------------------------
(***************************************************************************)
(* Model of the WDR Cosmo playlist pipeline: the scrape command            *)
(* (src/main.py), the scraper (src/scraper.py) and the DuckDB sink         *)
(* (src/database.py).                                                      *)
(*                                                                         *)
(* Text is a sequence of one-character strings.  A datetime value is a     *)
(* record [day, hour, minute, second, microsecond]; calendar days are      *)
(* numbered.  The ISO text produced by datetime.isoformat() is the tuple   *)
(* of its fixed-width fields, <<day, hour, minute, second>> followed by    *)
(* the microsecond only when that is not 0, and the empty text is <<>>.    *)
(***************************************************************************)
EXTENDS Integers, Sequences, FiniteSets, TLC

(***************************************************************************)
(* Text helpers (Python str methods used by the scraper).                  *)
(***************************************************************************)
SetMin(S) == CHOOSE x \in S : \A y \in S : x <= y

SetMax(S) == CHOOSE x \in S : \A y \in S : y <= x

\* str.strip(): leading and trailing whitespace removed.
StripAt(s, idx) ==
    IF idx = {} THEN <<>> ELSE SubSeq(s, SetMin(idx), SetMax(idx))

Strip(s) == StripAt(s, {i \in 1..Len(s) : s[i] # " "})

\* s.startswith(p) at position i.
MatchAt(s, p, i) ==
    /\ i + Len(p) - 1 <= Len(s)
    /\ \A k \in 1..Len(p) : s[i + k - 1] = p[k]

\* str.replace(old, ''): every non-overlapping occurrence, left to right.
RECURSIVE RemoveAll(_, _)
RemoveAll(s, old) ==
    IF s = <<>> THEN <<>>
    ELSE IF MatchAt(s, old, 1)
         THEN RemoveAll(SubSeq(s, Len(old) + 1, Len(s)), old)
         ELSE <<Head(s)>> \o RemoveAll(Tail(s), old)

\* str.replace(a, b) for single characters.
ReplaceChar(s, a, b) == [i \in 1..Len(s) |-> IF s[i] = a THEN b ELSE s[i]]

\* sep in s
Contains(s, sep) == \E i \in 1..Len(s) : s[i] = sep

\* str.split(sep): the list of pieces.
RECURSIVE Split(_, _)

SplitAt(s, sep, i) ==
    <<SubSeq(s, 1, i - 1)>> \o Split(SubSeq(s, i + 1, Len(s)), sep)

Split(s, sep) ==
    IF ~Contains(s, sep) THEN <<s>>
    ELSE SplitAt(s, sep, SetMin({k \in 1..Len(s) : s[k] = sep}))

\* ''.join(pieces)
RECURSIVE Join(_)
Join(pieces) ==
    IF pieces = <<>> THEN <<>> ELSE Head(pieces) \o Join(Tail(pieces))

DigitChars == <<"0", "1", "2", "3", "4", "5", "6", "7", "8", "9">>

IsDigit(c) == \E n \in 1..10 : DigitChars[n] = c

DigitVal(c) == (CHOOSE n \in 1..10 : DigitChars[n] = c) - 1

\* int(text) of a group of one or two digits.
IntOf(s) ==
    IF Len(s) = 1 THEN DigitVal(s[1]) ELSE 10 * DigitVal(s[1]) + DigitVal(s[2])

(***************************************************************************)
(* datetime.strptime: the regular expressions of Python's _strptime for    *)
(* the directives the scraper uses.  The whole text must match.            *)
(***************************************************************************)
Digits12(s) == Len(s) \in {1, 2} /\ \A i \in 1..Len(s) : IsDigit(s[i])

\* %H : 2[0-3]|[0-1]\d|\d
MatchH(s) == Digits12(s) /\ (Len(s) = 2 => IntOf(s) <= 23)

\* %M : [0-5]\d|\d
MatchM(s) == Digits12(s) /\ (Len(s) = 2 => IntOf(s) <= 59)

\* %S : 6[0-1]|[0-5]\d|\d
MatchS(s) == Digits12(s) /\ (Len(s) = 2 => IntOf(s) <= 61)

\* %I : 1[0-2]|0[1-9]|[1-9]
MatchI(s) == Digits12(s) /\ IntOf(s) \in 1..12

\* %p : am|pm, case ignored
MatchP(s) ==
    /\ Len(s) = 2
    /\ s[1] \in {"A", "a", "P", "p"}
    /\ s[2] \in {"M", "m"}

NoTime == [ok |-> FALSE, hour |-> 0, minute |-> 0, second |-> 0]

\* "%I:%M %p" after the colon: the minute, whitespace, the meridiem.
\* mm is the text before the first blank, rst the text from it, pp its
\* meridiem.
MeridiemTime(hh, mm, rst, pp) ==
    IF /\ MatchM(mm)
       /\ MatchP(pp)
       /\ rst = SubSeq(rst, 1, Len(rst) - Len(pp)) \o pp
    THEN [ok |-> TRUE,
          hour |-> (IntOf(hh) % 12) + (IF pp[1] \in {"P", "p"} THEN 12 ELSE 0),
          minute |-> IntOf(mm), second |-> 0]
    ELSE NoTime

MeridiemSplit(hh, tail, sp) ==
    MeridiemTime(hh, SubSeq(tail, 1, sp - 1), SubSeq(tail, sp, Len(tail)),
                 Strip(SubSeq(tail, sp, Len(tail))))

\* The time fields strptime yields for the text whose pieces between colons
\* are parts; ok is FALSE where it raises ValueError.  A second of 60 or 61
\* matches %S and is then refused by the datetime constructor, again with
\* ValueError.
StrptimeParts(parts, fmt) ==
    CASE fmt = "%H:%M" ->
           IF Len(parts) = 2 /\ MatchH(parts[1]) /\ MatchM(parts[2])
           THEN [ok |-> TRUE, hour |-> IntOf(parts[1]),
                 minute |-> IntOf(parts[2]), second |-> 0]
           ELSE NoTime
      [] fmt = "%I:%M %p" ->
           IF Len(parts) = 2 /\ MatchI(parts[1]) /\ Contains(parts[2], " ")
           THEN MeridiemSplit(parts[1], parts[2],
                              SetMin({k \in 1..Len(parts[2]) : parts[2][k] = " "}))
           ELSE NoTime
      [] fmt = "%H:%M:%S" ->
           IF Len(parts) = 3 /\ MatchH(parts[1]) /\ MatchM(parts[2])
              /\ MatchS(parts[3]) /\ IntOf(parts[3]) <= 59
           THEN [ok |-> TRUE, hour |-> IntOf(parts[1]),
                 minute |-> IntOf(parts[2]), second |-> IntOf(parts[3])]
           ELSE NoTime
      [] OTHER -> NoTime

Strptime(s, fmt) == StrptimeParts(Split(s, ":"), fmt)

(***************************************************************************)
(* datetime values and the operations the program applies to them.         *)
(***************************************************************************)
\* datetime.strptime(text, "%Y-%m-%d"): midnight of the day, no sub-second.
DateFromArg(d) ==
    [day |-> d, hour |-> 0, minute |-> 0, second |-> 0, microsecond |-> 0]

\* The argument None where a datetime is optional.
NoneDate ==
    [day |-> -1, hour |-> 0, minute |-> 0, second |-> 0, microsecond |-> 0]

\* dt + timedelta(days=n)  (n may be negative)
PlusDays(dt, n) == [dt EXCEPT !.day = dt.day + n]

\* dt.date()
DateOf(dt) == dt.day

\* dt.strftime('%Y-%m-%d')
Strftime(dt) == dt.day

\* ReplaceTime leaving the minute as it is.
ReplaceTimeKeepMinute(dt, h, m, s) ==
    [dt EXCEPT !.hour = h, !.second = s]

\* dt.replace(hour=h, minute=m, second=s): every other field is kept.
ReplaceTime(dt, h, m, s) ==
    [dt EXCEPT !.hour = h, !.minute = m, !.second = s]

\* dt.isoformat(): the sub-second part is printed only when it is not 0.
IsoFormat(dt) ==
    IF dt.microsecond = 0
    THEN <<dt.day, dt.hour, dt.minute, dt.second>>
    ELSE <<dt.day, dt.hour, dt.minute, dt.second, dt.microsecond>>

\* DtLeq as a strict comparison.
DtLess(a, b) ==
    \E i \in 1..5 :
       /\ <<a.day, a.hour, a.minute, a.second, a.microsecond>>[i]
            < <<b.day, b.hour, b.minute, b.second, b.microsecond>>[i]
       /\ \A j \in 1..(i - 1) :
             <<a.day, a.hour, a.minute, a.second, a.microsecond>>[j]
               = <<b.day, b.hour, b.minute, b.second, b.microsecond>>[j]

\* a <= b on datetime values
DtLeq(a, b) ==
    LET ka == <<a.day, a.hour, a.minute, a.second, a.microsecond>>
        kb == <<b.day, b.hour, b.minute, b.second, b.microsecond>>
    IN  \/ ka = kb
        \/ \E i \in 1..5 : ka[i] < kb[i] /\ \A j \in 1..(i - 1) : ka[j] = kb[j]

\* a < b on ISO texts (str comparison): field by field, a proper prefix first.
IsoLess(a, b) ==
    \/ \E i \in 1..Len(a) :
          /\ i <= Len(b)
          /\ a[i] < b[i]
          /\ \A j \in 1..(i - 1) : a[j] = b[j]
    \/ /\ Len(a) < Len(b)
       /\ \A j \in 1..Len(a) : a[j] = b[j]

(***************************************************************************)
(* CosmoPlaylistScraper._parse_timestamp                                   *)
(***************************************************************************)
TimeFormats == <<"%H:%M", "%I:%M %p", "%H:%M:%S">>

RECURSIVE TryFormats(_, _, _)

\* Lines 176-184: one format tried, time_obj being what strptime gave.
TryFormat(timestamp_str, date, fmts, time_obj) ==
    IF time_obj.ok
    THEN IsoFormat(ReplaceTime(date, time_obj.hour, time_obj.minute,
                               time_obj.second))
    ELSE TryFormats(timestamp_str, date, Tail(fmts))

TryFormats(timestamp_str, date, fmts) ==
    IF fmts = <<>> THEN <<>>
    ELSE TryFormat(timestamp_str, date, fmts,
                   Strptime(timestamp_str, Head(fmts)))

\* parse_timestamp falling back to the date alone where no format matches.
ParseTimestampOrDate(timestamp_str, date) ==
    IF timestamp_str = <<>> \/ TryFormats(timestamp_str, date, TimeFormats) = <<>>
    THEN IsoFormat(date)
    ELSE TryFormats(timestamp_str, date, TimeFormats)

parse_timestamp(timestamp_str, date) ==
    IF timestamp_str = <<>> THEN <<>>
    ELSE TryFormats(timestamp_str, date, TimeFormats)

(***************************************************************************)
(* CosmoPlaylistScraper._parse_playlist.  A page is [table, rows]: table   *)
(* says whether table.thleft exists, rows are its tr.data rows.  A row is  *)
(* [datetime, title, performer, raises], the first three the element       *)
(* select_one() finds: [present, nodes], nodes being the element's text    *)
(* nodes; raises says that handling the row ends in an exception.          *)
(***************************************************************************)
NoElem == [present |-> FALSE, nodes |-> <<>>]

Elem(nodes) == [present |-> TRUE, nodes |-> nodes]

\* bool(elem): None is false; a bs4 Tag is true whatever it contains.
Truthy(elem) == elem.present

\* elem.get_text(strip=True): the stripped text nodes that are not empty,
\* joined.
RECURSIVE StrippedNodes(_)
StrippedNodes(nodes) ==
    IF nodes = <<>> THEN <<>>
    ELSE (IF Strip(Head(nodes)) = <<>> THEN <<>> ELSE <<Strip(Head(nodes))>>)
         \o StrippedNodes(Tail(nodes))

GetText(elem) == Join(StrippedNodes(elem.nodes))

\* Lines 132-141: the time text of a row's label.
TimePart(datetime_text) ==
    IF Contains(datetime_text, ",")
    THEN ReplaceChar(Strip(Split(datetime_text, ",")[2]), ".", ":")
    ELSE <<>>

TimestampStr(datetime_elem) ==
    TimePart(Strip(RemoveAll(IF Truthy(datetime_elem)
                             THEN GetText(datetime_elem) ELSE <<>>,
                             <<"U", "h", "r">>)))

\* Line 130: the rows that yield a song.
RowAccepted(row) == Truthy(row.title) /\ Truthy(row.performer)

\* Lines 122-154: handling the row raises an exception, which line 152
\* catches.
RowRaises(row) == row.raises

\* The date a row's label carries, for a page whose other rows carry `date`:
\* the day before when the label's day of the month is 12.
LabelDate(row, date) ==
    IF /\ Truthy(row.datetime)
       /\ Len(GetText(row.datetime)) >= 2
       /\ SubSeq(GetText(row.datetime), 1, 2) = <<"1", "2">>
    THEN PlusDays(date, -1)
    ELSE date

\* SongOf taking the date from the row's label.
SongOfLabelDate(row, date, timestamp_str) ==
    [artist   |-> GetText(row.performer),
     title    |-> GetText(row.title),
     time     |-> timestamp_str,
     date     |-> Strftime(LabelDate(row, date)),
     datetime |-> parse_timestamp(timestamp_str, LabelDate(row, date))]

\* Lines 143-149
SongOf(row, date, timestamp_str) ==
    [artist   |-> GetText(row.performer),
     title    |-> GetText(row.title),
     time     |-> timestamp_str,
     date     |-> Strftime(date),
     datetime |-> parse_timestamp(timestamp_str, date)]

SongData(row, date) == SongOf(row, date, TimestampStr(row.datetime))

\* ParseRows with the try around the loop: a row that raises ends the page,
\* the rows before it are returned.
RECURSIVE ParseRowsUntilRaise(_, _)
ParseRowsUntilRaise(rows, date) ==
    IF rows = <<>> \/ RowRaises(Head(rows)) THEN <<>>
    ELSE (IF RowAccepted(Head(rows)) THEN <<SongData(Head(rows), date)>>
          ELSE <<>>)
         \o ParseRowsUntilRaise(Tail(rows), date)

\* Lines 121-154: for row in song_rows
RECURSIVE ParseRows(_, _)
ParseRows(rows, date) ==
    IF rows = <<>> THEN <<>>
    ELSE (IF ~RowRaises(Head(rows)) /\ RowAccepted(Head(rows))
          THEN <<SongData(Head(rows), date)>>
          ELSE <<>>)
         \o ParseRows(Tail(rows), date)

\* parse_playlist taking the rows wherever they are in the page.
ParsePlaylistAnywhere(page, date) == ParseRows(page.rows, date)

\* Lines 109-156
parse_playlist(page, date) ==
    IF ~page.table THEN <<>> ELSE ParseRows(page.rows, date)

(***************************************************************************)
(* The origin service.  It knows, for each day, the rows it broadcast and  *)
(* the minute of the day each was played at, and answers a query for       *)
(* (day, hour, minute) with the rows played within WindowMinutes of that   *)
(* time (src/scraper.py line 33), as far as they have been played yet.     *)
(***************************************************************************)
VARIABLES
    clock,        \* the wall clock: what datetime.now() last returned
    broadcasts,   \* the origin's content: day -> sequence of [at, row]
    db,           \* the songs table, rows in insertion order
    pc,           \* where the scrape command stands
    args,         \* the arguments of the command being run
    current_date, \* fetch_date_range: current_date
    end_date,     \* fetch_date_range: end_date
    songs,        \* cmd_scrape: songs (fetch_date_range: all_songs)
    calls,        \* the fetch_playlist calls of this command, in order
    inserted,     \* what the last insert_songs call returned
    db_before,    \* the table before the last insert_songs call
    ingested,     \* the events handed to insert_songs by earlier commands
    runs,         \* commands started
    faults,       \* calls that met a failed request, a malformed response or
                  \* a failing statement
    insert_errors,\* per insert_songs call of this command, the positions of
                  \* the songs whose statement raised another error
    exited,       \* the command line a process was started with and the
                  \* status it ended with, once one has ended
    lookup        \* the lookup_genre call under way: its arguments, the
                  \* responses the service gives and, once it has returned,
                  \* the requests it made and its result

vars == <<clock, broadcasts, db, pc, args, current_date, end_date, songs,
          calls, inserted, db_before, ingested, runs, faults, insert_errors,
          exited, lookup>>

HoursPerDay == 24

WindowMinutes == 30

MinuteOfDay(dt) == 60 * dt.hour + dt.minute

Abs(n) == IF n < 0 THEN -n ELSE n

Played(day, at, now) ==
    day < now.day \/ (day = now.day /\ at <= MinuteOfDay(now))

RECURSIVE WindowRows(_, _, _, _)
WindowRows(bs, day, t, now) ==
    IF bs = <<>> THEN <<>>
    ELSE (IF Abs(Head(bs).at - t) <= WindowMinutes /\ Played(day, Head(bs).at, now)
          THEN <<Head(bs).row>> ELSE <<>>)
         \o WindowRows(Tail(bs), day, t, now)

\* The rows of the page the origin renders for one form submission.
PageRows(form_data, content, now) ==
    IF form_data.date \in DOMAIN content
    THEN WindowRows(content[form_data.date], form_data.date,
                    60 * form_data.hours + form_data.minutes, now)
    ELSE <<>>

\* The response to one form submission: "error" is a RequestException
\* (timeout, connection error, non-2xx status), "notable" a page whose rows
\* are not inside a table.thleft (another layout), "ok" the regular page.
Response(form_data, outcome, content, now) ==
    CASE outcome = "error"   -> [failed |-> TRUE, table |-> FALSE, rows |-> <<>>]
      [] outcome = "notable" ->
           [failed |-> FALSE, table |-> FALSE,
            rows |-> PageRows(form_data, content, now)]
      [] OTHER ->
           [failed |-> FALSE, table |-> TRUE,
            rows |-> PageRows(form_data, content, now)]

(***************************************************************************)
(* CosmoPlaylistScraper._fetch_playlist_for_time                           *)
(***************************************************************************)
\* Lines 78-83; the two-digit padding of hour and minute is not modelled.
FormData(date, hour, minute) ==
    [date |-> Strftime(date), hours |-> hour, minutes |-> minute]

\* Lines 85-97: the songs returned, and whether time.sleep(delay) ran.
Fetch(date, form_data, outcome, response) ==
    IF response.failed
    THEN [form_data |-> form_data, outcome |-> outcome,
          songs |-> <<>>, slept |-> FALSE]
    ELSE [form_data |-> form_data, outcome |-> outcome,
          songs |-> parse_playlist(response, date), slept |-> TRUE]

fetch_playlist_for_time(date, hour, minute, outcome, content, now) ==
    Fetch(date, FormData(date, hour, minute), outcome,
          Response(FormData(date, hour, minute), outcome, content, now))

(***************************************************************************)
(* CosmoPlaylistScraper.fetch_playlist                                     *)
(***************************************************************************)
\* Line 49
SongKey(song) == <<song.artist, song.title, song.time>>

\* SeenAtStart with the seen set kept from one day of a range to the next.
SeenKeptAcrossDays == {SongKey(songs[i]) : i \in 1..Len(songs)}

\* Line 36: the seen set a call starts with.
SeenAtStart == {}

\* Dedup without the membership test of line 50.
DedupNoTest(acc, page_songs) ==
    [acc EXCEPT !.all_songs = @ \o page_songs,
                !.seen_songs = @ \cup {SongKey(page_songs[i]) :
                                          i \in 1..Len(page_songs)}]

\* Dedup applying the membership test of line 50 to songs with a timestamp
\* only.
RECURSIVE DedupTimestamped(_, _)
DedupTimestamped(acc, page_songs) ==
    IF page_songs = <<>> THEN acc
    ELSE IF \/ Head(page_songs).datetime = <<>>
            \/ SongKey(Head(page_songs)) \notin acc.seen_songs
         THEN DedupTimestamped([acc EXCEPT
                                   !.all_songs  = Append(@, Head(page_songs)),
                                   !.seen_songs = @ \cup {SongKey(Head(page_songs))}],
                               Tail(page_songs))
         ELSE DedupTimestamped(acc, Tail(page_songs))

\* Dedup keeping, of two songs with one key, the one that came last.
RECURSIVE DedupKeepLast(_, _)
DedupKeepLast(acc, page_songs) ==
    IF page_songs = <<>> THEN acc
    ELSE DedupKeepLast([acc EXCEPT
                           !.all_songs  =
                               Append(SelectSeq(@, LAMBDA s :
                                          SongKey(s) # SongKey(Head(page_songs))),
                                      Head(page_songs)),
                           !.seen_songs = @ \cup {SongKey(Head(page_songs))}],
                       Tail(page_songs))

\* Lines 48-53: one page's songs merged into all_songs and seen_songs.
RECURSIVE Dedup(_, _)
Dedup(acc, page_songs) ==
    IF page_songs = <<>> THEN acc
    ELSE IF SongKey(Head(page_songs)) \notin acc.seen_songs
         THEN Dedup([acc EXCEPT
                        !.all_songs  = Append(@, Head(page_songs)),
                        !.seen_songs = @ \cup {SongKey(Head(page_songs))}],
                    Tail(page_songs))
         ELSE Dedup(acc, Tail(page_songs))

\* Line 39
IsToday(date, now) == DateOf(date) = DateOf(now)

\* MaxHourOf without the + 1 of line 40.
MaxHourOfCurrentExcluded(is_today, now) ==
    IF is_today THEN now.hour ELSE HoursPerDay

\* Line 40
MaxHourOf(is_today, now) == IF is_today THEN now.hour + 1 ELSE HoursPerDay

\* SortSongs with line 58 left out.
SortSongsNot(list) == list

\* Line 58: list.sort(key=datetime text) is stable; insertion from the left
\* after every element that is not greater gives the same list.
RECURSIVE SortedInsert(_, _)
SortedInsert(sorted, song) ==
    IF sorted = <<>> THEN <<song>>
    ELSE IF IsoLess(song.datetime, Head(sorted).datetime)
         THEN <<song>> \o sorted
         ELSE <<Head(sorted)>> \o SortedInsert(Tail(sorted), song)

RECURSIVE SortSongs(_)
SortSongs(list) ==
    IF list = <<>> THEN <<>>
    ELSE SortedInsert(SortSongs(SubSeq(list, 1, Len(list) - 1)), list[Len(list)])

\* HourPass losing what was collected when the request failed.
HourPassDropOnError(acc, fetched) ==
    IF fetched.outcome = "error"
    THEN [all_songs  |-> <<>>,
          seen_songs |-> {},
          queries    |-> Append(acc.queries,
                               [form_data |-> fetched.form_data,
                                outcome   |-> fetched.outcome,
                                found     |-> fetched.songs,
                                slept     |-> fetched.slept])]
    ELSE Dedup([acc EXCEPT !.queries = Append(@, [form_data |-> fetched.form_data,
                                                  outcome   |-> fetched.outcome,
                                                  found     |-> fetched.songs,
                                                  slept     |-> fetched.slept])],
               fetched.songs)

\* Lines 44-55: one pass of the loop, given what the request returned.
HourPass(acc, fetched) ==
    Dedup([acc EXCEPT !.queries = Append(@, [form_data |-> fetched.form_data,
                                             outcome   |-> fetched.outcome,
                                             found     |-> fetched.songs,
                                             slept     |-> fetched.slept])],
          fetched.songs)

\* Line 44: the request of one pass.  outcomes maps the hours whose request
\* does not get the regular page to what happens instead.
HourFetch(hour, date, outcomes, content, now) ==
    fetch_playlist_for_time(date, hour, 0,
                            IF hour \in DOMAIN outcomes THEN outcomes[hour]
                            ELSE "ok",
                            content, now)

RECURSIVE HourLoop(_, _, _, _, _, _)

\* HourLoop leaving the loop after the first request that fails.
HourLoopUntilError(max_hour, date, outcomes, content, now, acc) ==
    IF \/ Len(acc.queries) >= max_hour
       \/ /\ acc.queries # <<>>
          /\ acc.queries[Len(acc.queries)].outcome = "error"
    THEN acc
    ELSE HourLoop(max_hour, date, outcomes, content, now,
                  HourPass(acc, HourFetch(Len(acc.queries), date, outcomes,
                                          content, now)))

\* Lines 42-55: for hour in range(max_hour).  Every pass appends its query
\* to acc.queries, so the hour of the next pass is the number of passes made.
HourLoop(max_hour, date, outcomes, content, now, acc) ==
    IF Len(acc.queries) >= max_hour THEN acc
    ELSE HourLoop(max_hour, date, outcomes, content, now,
                  HourPass(acc, HourFetch(Len(acc.queries), date, outcomes,
                                          content, now)))

\* The whole call.  now29, now39 and now40 are what datetime.now() returns on
\* lines 29, 39 and 40.  The result is the call's record: its argument, what
\* it decided, the queries it made and the list it returns.
CallRecord(date, is_today, now39, now40, looped) ==
    [date     |-> date,
     is_today |-> is_today,
     now39    |-> now39,
     now40    |-> now40,
     queries  |-> looped.queries,
     merged   |-> looped.all_songs,
     result   |-> SortSongs(looped.all_songs)]

CallOn(date, is_today, now39, now40, outcomes, content) ==
    CallRecord(date, is_today, now39, now40,
               HourLoop(MaxHourOf(is_today, now40), date, outcomes, content,
                        now40,
                        [all_songs  |-> <<>>,
                         seen_songs |-> SeenAtStart,
                         queries    |-> <<>>]))

fetch_playlist(date_arg, now29, now39, now40, outcomes, content) ==
    CallOn(IF date_arg = NoneDate THEN now29 ELSE date_arg,
           IsToday(IF date_arg = NoneDate THEN now29 ELSE date_arg, now39),
           now39, now40, outcomes, content)

(***************************************************************************)
(* PlaylistDatabase.insert_songs on the songs table                        *)
(***************************************************************************)
Null == <<>>

\* CAST(? AS TIMESTAMP) of an ISO text, None for the empty text (line 148).
CastTimestamp(datetime_str) ==
    IF datetime_str = <<>> THEN Null
    ELSE IF Len(datetime_str) = 4 THEN datetime_str \o <<0>>
    ELSE datetime_str

\* UniqueViolation for a table created without the constraint.
NoUniqueConstraint(table, artist, title, ts) == FALSE

\* UNIQUE(artist, title, datetime), line 30: NULL never equals NULL.
UniqueViolation(table, artist, title, ts) ==
    /\ ts # Null
    /\ \E i \in 1..Len(table) :
          /\ table[i].artist = artist
          /\ table[i].title = title
          /\ table[i].datetime = ts

\* SELECT COALESCE(MAX(id), 0) FROM songs, line 130
MaxId(table) ==
    IF table = <<>> THEN 0 ELSE SetMax({table[i].id : i \in 1..Len(table)})

\* InsertOne using up an id for a song that is not stored.
InsertOneConsumingId(st, song, ts, raises) ==
    IF raises \/ UniqueViolation(st.table, song.artist, song.title, ts)
    THEN [st EXCEPT !.next_id = @ + 1]
    ELSE [table    |-> Append(st.table,
                              [id       |-> st.next_id,
                               artist   |-> song.artist,
                               title    |-> song.title,
                               time     |-> song.time,
                               date     |-> song.date,
                               datetime |-> ts]),
          next_id  |-> st.next_id + 1,
          inserted |-> st.inserted + 1,
          skipped  |-> st.skipped]

\* InsertOne with a statement that replaces the stored row on a conflict.
InsertOneReplacing(st, song, ts, raises) ==
    IF raises THEN st
    ELSE [table    |-> SelectSeq(st.table,
                                 LAMBDA r : ~(/\ ts # Null
                                              /\ r.artist = song.artist
                                              /\ r.title = song.title
                                              /\ r.datetime = ts))
                         \o <<[id       |-> st.next_id,
                               artist   |-> song.artist,
                               title    |-> song.title,
                               time     |-> song.time,
                               date     |-> song.date,
                               datetime |-> ts]>>,
          next_id  |-> st.next_id + 1,
          inserted |-> st.inserted + 1,
          skipped  |-> st.skipped]

\* Lines 134-158: one song, ts being its datetime cast for the statement and
\* raises telling that the statement raises another error than a
\* ConstraintException (lines 156-158).
InsertOne(st, song, ts, raises) ==
    IF raises THEN st
    ELSE IF UniqueViolation(st.table, song.artist, song.title, ts)
    THEN [st EXCEPT !.skipped = @ + 1]
    ELSE [table    |-> Append(st.table,
                              [id       |-> st.next_id,
                               artist   |-> song.artist,
                               title    |-> song.title,
                               time     |-> song.time,
                               date     |-> song.date,
                               datetime |-> ts]),
          next_id  |-> st.next_id + 1,
          inserted |-> st.inserted + 1,
          skipped  |-> st.skipped]

RECURSIVE InsertLoop(_, _, _)

\* InsertLoop leaving the loop at the first statement that raises.
InsertLoopUntilError(st, list, failing) ==
    IF list = <<>> THEN st
    ELSE IF \/ 1 \in failing
            \/ UniqueViolation(st.table, Head(list).artist, Head(list).title,
                               CastTimestamp(Head(list).datetime))
         THEN st
         ELSE InsertLoop(InsertOne(st, Head(list),
                                   CastTimestamp(Head(list).datetime), FALSE),
                         Tail(list), {p - 1 : p \in failing \ {1}})

\* Lines 133-158: the loop over the songs.  failing holds the positions in
\* list of the songs whose statement raises another error.
InsertLoop(st, list, failing) ==
    IF list = <<>> THEN st
    ELSE InsertLoop(InsertOne(st, Head(list), CastTimestamp(Head(list).datetime),
                              1 \in failing),
                    Tail(list), {p - 1 : p \in failing \ {1}})

\* Lines 91-105: _verify_data_integrity(expected_min_rows, ...), given the
\* count get_total_songs returns.
verify_data_integrity(expected_min_rows, current_count) ==
    IF current_count = 0 /\ expected_min_rows > 0 THEN FALSE
    ELSE IF current_count < expected_min_rows THEN FALSE
    ELSE TRUE

insert_songs(table, list, failing) ==
    InsertLoop([table |-> table, next_id |-> MaxId(table) + 1,
                inserted |-> 0, skipped |-> 0], list, failing)

(***************************************************************************)
(* LastFmGenreEnricher (src/genre_enricher.py).  The regular expressions   *)
(* of TITLE_STRIP_PATTERNS are sequences of tokens, matched the way        *)
(* Python's re matches them: greedily, backtracking, case ignored.         *)
(***************************************************************************)
UpperChars ==
    <<"A", "B", "C", "D", "E", "F", "G", "H", "I", "J", "K", "L", "M",
      "N", "O", "P", "Q", "R", "S", "T", "U", "V", "W", "X", "Y", "Z">>

LowerChars ==
    <<"a", "b", "c", "d", "e", "f", "g", "h", "i", "j", "k", "l", "m",
      "n", "o", "p", "q", "r", "s", "t", "u", "v", "w", "x", "y", "z">>

\* str.lower() of one character
LowerChar(c) ==
    IF \E n \in 1..Len(UpperChars) : UpperChars[n] = c
    THEN LowerChars[CHOOSE n \in 1..Len(UpperChars) : UpperChars[n] = c]
    ELSE c

\* str.lower()
Lower(s) == [i \in 1..Len(s) |-> LowerChar(s[i])]

\* A literal character of a pattern.
Lit(c) == [kind |-> "lit", ch |-> c]

Lits(text) == [i \in 1..Len(text) |-> Lit(text[i])]

\* c? for a literal c
Opt(c) == [kind |-> "opt", ch |-> c]

\* (text)? for a literal text
OptGroup(text) == [kind |-> "optgroup", group |-> Lits(text)]

\* \s* and \s+
Ws0 == [kind |-> "run", class |-> "space", min |-> 0]

Ws1 == [kind |-> "run", class |-> "space", min |-> 1]

\* [^)]* and [^)]+
Np0 == [kind |-> "run", class |-> "notparen", min |-> 0]

Np1 == [kind |-> "run", class |-> "notparen", min |-> 1]

\* [0-9]
Digit == [kind |-> "digit"]

\* $
End == [kind |-> "end"]

InClass(c, class) ==
    IF class = "space" THEN c = " " ELSE c # ")"

\* The number of characters of the class that s holds from position i on.
RunLen(s, i, class) ==
    IF \A k \in i..Len(s) : InClass(s[k], class) THEN Len(s) - i + 1
    ELSE SetMin({k \in i..Len(s) : ~InClass(s[k], class)}) - i

\* The first alternative that matches; 0 stands for no match.
FirstMatch(a, b) == IF a # 0 THEN a ELSE b

RECURSIVE MatchEnd(_, _, _)
RECURSIVE TryRun(_, _, _, _, _)

\* A run of k characters, then the rest; the longest run is tried first.
TryRun(s, i, k, min, rest) ==
    IF k < min THEN 0
    ELSE FirstMatch(MatchEnd(s, i + k, rest), TryRun(s, i, k - 1, min, rest))

MatchTok(s, i, t, rest) ==
    CASE t.kind = "lit" ->
           IF i <= Len(s) /\ LowerChar(s[i]) = t.ch
           THEN MatchEnd(s, i + 1, rest) ELSE 0
      [] t.kind = "digit" ->
           IF i <= Len(s) /\ IsDigit(s[i])
           THEN MatchEnd(s, i + 1, rest) ELSE 0
      [] t.kind = "opt" ->
           IF i <= Len(s) /\ LowerChar(s[i]) = t.ch
           THEN FirstMatch(MatchEnd(s, i + 1, rest), MatchEnd(s, i, rest))
           ELSE MatchEnd(s, i, rest)
      [] t.kind = "optgroup" ->
           FirstMatch(MatchEnd(s, i, t.group \o rest), MatchEnd(s, i, rest))
      [] t.kind = "run" ->
           TryRun(s, i, RunLen(s, i, t.class), t.min, rest)
      [] t.kind = "end" ->
           IF i = Len(s) + 1 THEN MatchEnd(s, i, rest) ELSE 0

\* The position after the match of the tokens at position i of s, 0 if they
\* do not match there.
MatchEnd(s, i, toks) ==
    IF toks = <<>> THEN i ELSE MatchTok(s, i, Head(toks), Tail(toks))

RECURSIVE SubFrom(_, _, _)

SubStep(s, i, toks, e) ==
    IF e # 0 THEN SubFrom(s, e, toks) ELSE <<s[i]>> \o SubFrom(s, i + 1, toks)

SubFrom(s, i, toks) ==
    IF i > Len(s) THEN <<>> ELSE SubStep(s, i, toks, MatchEnd(s, i, toks))

\* re.sub(pattern, '', s, flags=re.IGNORECASE)
ReSub(toks, s) == SubFrom(s, 1, toks)

\* Lines 26-45
TITLE_STRIP_PATTERNS ==
    << <<Ws0>> \o Lits(<<"(", "f", "e", "a", "t">>) \o <<Opt("."), Ws1, Np1, Lit(")")>>,
       <<Ws0>> \o Lits(<<"(", "f", "t">>) \o <<Opt("."), Ws1, Np1, Lit(")")>>,
       <<Ws0>> \o Lits(<<"(", "f", "e", "a", "t", "u", "r", "i", "n", "g">>)
              \o <<Ws1, Np1, Lit(")")>>,
       <<Ws0>> \o Lits(<<"(", "w", "i", "t", "h">>) \o <<Ws1, Np1, Lit(")")>>,
       <<Ws0>> \o Lits(<<"(", "r", "e", "m", "i", "x", ")">>),
       <<Ws0, Lit("("), Np0>> \o Lits(<<"r", "e", "m", "i", "x">>) \o <<Np0, Lit(")")>>,
       <<Ws0>> \o Lits(<<"(", "r", "a", "d", "i", "o">>) \o <<Ws0>>
              \o Lits(<<"e", "d", "i", "t", ")">>),
       <<Ws0>> \o Lits(<<"(", "r", "a", "d", "i", "o">>) \o <<Ws0>>
              \o Lits(<<"v", "e", "r", "s", "i", "o", "n", ")">>),
       <<Ws0>> \o Lits(<<"(", "e", "d", "i", "t", ")">>),
       <<Ws0>> \o Lits(<<"(", "o", "r", "i", "g", "i", "n", "a", "l">>) \o <<Ws0>>
              \o Lits(<<"m", "i", "x", ")">>),
       <<Ws0>> \o Lits(<<"(", "e", "x", "t", "e", "n", "d", "e", "d">>) \o <<Ws0>>
              \o Lits(<<"m", "i", "x", ")">>),
       <<Ws0>> \o Lits(<<"(", "c", "l", "u", "b">>) \o <<Ws0>>
              \o Lits(<<"m", "i", "x", ")">>),
       <<Ws0>> \o Lits(<<"(", "a", "c", "o", "u", "s", "t", "i", "c", ")">>),
       <<Ws0>> \o Lits(<<"(", "l", "i", "v", "e", ")">>),
       <<Ws0>> \o Lits(<<"(", "r", "e", "m", "a", "s", "t", "e", "r">>)
              \o <<OptGroup(<<"e", "d">>), Lit(")")>>,
       <<Ws0, Lit("("), Digit, Digit, Digit, Digit, Ws0>>
              \o Lits(<<"r", "e", "m", "a", "s", "t", "e", "r", ")">>),
       <<Ws0, Lit("-"), Ws0>> \o Lits(<<"r", "e", "m", "i", "x">>) \o <<End>>,
       <<Ws0, Lit("-"), Ws0>> \o Lits(<<"r", "a", "d", "i", "o">>) \o <<Ws0>>
              \o Lits(<<"e", "d", "i", "t">>) \o <<End>> >>

\* Lines 78-80: every pattern in turn removed from what the earlier ones left.
RECURSIVE StripPatterns(_, _)
StripPatterns(patterns, cleaned) ==
    IF patterns = <<>> THEN cleaned
    ELSE StripPatterns(Tail(patterns), ReSub(Head(patterns), cleaned))

\* _clean_title, lines 76-81
clean_title(title) == Strip(StripPatterns(TITLE_STRIP_PATTERNS, title))

\* Line 86
Separators ==
    << <<" ", "f", "e", "a", "t", ".">>,
       <<" ", "f", "e", "a", "t", " ">>,
       <<" ", "f", "t", ".">>,
       <<" ", "f", "t", " ">>,
       <<" ", "&", " ">>,
       <<" ", "x", " ">>,
       <<" ", "v", "s", " ">>,
       <<" ", "v", "s", ".", " ">>,
       <<",", " ">> >>

\* sep in s
ContainsText(s, sep) == \E i \in 1..Len(s) : MatchAt(s, sep, i)

\* s.find(sep), counted from 1, for a sep that s contains
Find(s, sep) == SetMin({i \in 1..Len(s) : MatchAt(s, sep, i)})

\* Lines 86-90: the loop over the separators.
RECURSIVE PrimaryBy(_, _)
PrimaryBy(seps, artist) ==
    IF seps = <<>> THEN Strip(artist)
    ELSE IF ContainsText(Lower(artist), Head(seps))
         THEN Strip(SubSeq(artist, 1, Find(Lower(artist), Head(seps)) - 1))
         ELSE PrimaryBy(Tail(seps), artist)

\* _extract_primary_artist, lines 83-90
extract_primary_artist(artist) == PrimaryBy(Separators, artist)

\* s[:n]
Take(n, s) == SubSeq(s, 1, IF Len(s) < n THEN Len(s) ELSE n)

\* ', '.join(pieces)
RECURSIVE JoinComma(_)
JoinComma(pieces) ==
    IF pieces = <<>> THEN <<>>
    ELSE IF Len(pieces) = 1 THEN Head(pieces)
    ELSE Head(pieces) \o <<",", " ">> \o JoinComma(Tail(pieces))

\* _format_tags, lines 186-188
format_tags(tags) == JoinComma(Take(3, tags))

\* What _get_track_tags and _get_artist_tags return: None, or a list of names.
NoTags == [none |-> TRUE, names |-> <<>>]

\* Lines 109-139 and 157-184: the tags read from the response to one request.
\* A response is "failed" (a RequestException: no connection, a timeout, a
\* status that is no success, a body that is no JSON), "error" (a body with
\* an error key) or "ok", with the value of toptags.tag: a list of tags, or
\* one tag for a list of one.
TopTags(response) ==
    IF response.kind # "ok" THEN NoTags
    ELSE IF ~response.single /\ response.tag = <<>> THEN NoTags
    ELSE [none  |-> FALSE,
          names |-> Take(5, [k \in 1..Len(SelectSeq(
                                       IF response.single THEN <<response.tag>>
                                       ELSE response.tag,
                                       LAMBDA tag : tag.count > 0))
                             |-> SelectSeq(IF response.single THEN <<response.tag>>
                                           ELSE response.tag,
                                           LAMBDA tag : tag.count > 0)[k].name])]

\* if tags:
HasTags(asked) == ~asked.tags.none /\ asked.tags.names # <<>>

\* _get_track_tags, lines 92-139: the request is sent and answered by the
\* next response of the service.
get_track_tags(st, artist, title) ==
    [requests  |-> Append(st.requests,
                          [method |-> "track.getTopTags",
                           artist |-> artist, track |-> title]),
     responses |-> st.responses,
     tags      |-> TopTags(st.responses[Len(st.requests) + 1])]

\* _get_artist_tags, lines 141-184; the request has no track parameter.
get_artist_tags(st, artist) ==
    [requests  |-> Append(st.requests,
                          [method |-> "artist.getTopTags",
                           artist |-> artist, track |-> Null]),
     responses |-> st.responses,
     tags      |-> TopTags(st.responses[Len(st.requests) + 1])]

\* return self._format_tags(tags)
Found(asked) ==
    [requests |-> asked.requests, none |-> FALSE,
     genre |-> format_tags(asked.tags.names)]

\* Line 261: return None
NotFound(asked) ==
    [requests |-> asked.requests, none |-> TRUE, genre |-> <<>>]

\* Lines 252-261
Conclude(asked) == IF HasTags(asked) THEN Found(asked) ELSE NotFound(asked)

Strategy5(st, artist, primary_artist) ==
    Conclude(get_artist_tags(st, IF primary_artist # artist THEN primary_artist
                                 ELSE artist))

\* Lines 241-246
Strategy4(st, artist, cleaned_title, title, primary_artist) ==
    IF cleaned_title # title
    THEN IF HasTags(get_track_tags(st, primary_artist, cleaned_title))
         THEN Found(get_track_tags(st, primary_artist, cleaned_title))
         ELSE Strategy5(get_track_tags(st, primary_artist, cleaned_title),
                        artist, primary_artist)
    ELSE Strategy5(st, artist, primary_artist)

\* Lines 230-238
Strategy3(st, artist, cleaned_title, title, primary_artist) ==
    IF primary_artist # artist
    THEN IF HasTags(get_track_tags(st, primary_artist, title))
         THEN Found(get_track_tags(st, primary_artist, title))
         ELSE Strategy4(get_track_tags(st, primary_artist, title),
                        artist, cleaned_title, title, primary_artist)
    ELSE Strategy5(st, artist, primary_artist)

\* Strategy2 asking for the cleaned title also when it is the title.
Strategy2Always(st, artist, cleaned_title, title, primary_artist) ==
    IF HasTags(get_track_tags(st, artist, cleaned_title))
    THEN Found(get_track_tags(st, artist, cleaned_title))
    ELSE Strategy3(get_track_tags(st, artist, cleaned_title),
                   artist, cleaned_title, title, primary_artist)

\* Lines 219-227
Strategy2(st, artist, cleaned_title, title, primary_artist) ==
    IF cleaned_title # title
    THEN IF HasTags(get_track_tags(st, artist, cleaned_title))
         THEN Found(get_track_tags(st, artist, cleaned_title))
         ELSE Strategy3(get_track_tags(st, artist, cleaned_title),
                        artist, cleaned_title, title, primary_artist)
    ELSE Strategy3(st, artist, cleaned_title, title, primary_artist)

\* Lines 212-216
Strategy1(st, artist, cleaned_title, title, primary_artist) ==
    IF HasTags(get_track_tags(st, artist, title))
    THEN Found(get_track_tags(st, artist, title))
    ELSE Strategy2(get_track_tags(st, artist, title),
                   artist, cleaned_title, title, primary_artist)

\* lookup_genre, lines 190-261, the service answering the requests of the
\* call with responses, in this order.
lookup_genre(artist, title, responses) ==
    Strategy1([requests |-> <<>>, responses |-> responses],
              artist, clean_title(title), title, extract_primary_artist(artist))

(***************************************************************************)
(* The inputs.                                                             *)
(***************************************************************************)
\* The command is run up to MaxRuns times on one database file.
MaxRuns == 2

\* Calls, over all runs, that meet a fault: a fetch_playlist call in which a
\* request fails or gets a page without the table, an insert_songs call in
\* which a statement raises another error than a ConstraintException.
MaxFaults == 1

\* The largest N of --days N.
MaxDaysArg == 2

\* The calendar days the origin has content for; the clock starts on the
\* last of them.
Days == {1, 2}

Today == SetMax(Days)

StartHours == {14, 23}

\* The hours whose request may fail.
FaultHours == {14}

Label(time_text) == Elem(<<<<"1", "3", ".", "0", "1", ".", "2", "0", "2", "6", ",">>, time_text>>)

\* A label carrying another date than the other rows.
LabelEve(time_text) == Elem(<<<<"1", "2", ".", "0", "1", ".", "2", "0", "2", "6", ",">>, time_text>>)

Bc(at, datetime_elem, title_elem, performer_elem) ==
    [at |-> at,
     row |-> [datetime |-> datetime_elem, title |-> title_elem,
              performer |-> performer_elem, raises |-> FALSE]]

\* A row whose handling raises.
BcRaising(at, datetime_elem, title_elem, performer_elem) ==
    [at |-> at,
     row |-> [datetime |-> datetime_elem, title |-> title_elem,
              performer |-> performer_elem, raises |-> TRUE]]

\* An ordinary day, the page listing the latest row first.
ProgrammeA ==
    << Bc(1425, Label(<<"2", "3", ".", "4", "5", " ", "U", "h", "r">>), Elem(<<<<"Z">>>>), Elem(<<<<"C">>>>)),
       Bc(870,  Label(<<"1", "4", ".", "3", "0", " ", "U", "h", "r">>), Elem(<<<<" ", "Y", " ">>>>), Elem(<<<<"B">>>>)),
       Bc(10,   Label(<<"0", "0", ".", "1", "0", " ", "U", "h", "r">>), Elem(<<<<"X">>>>), Elem(<<<<"A">>>>)) >>

\* A day with a row listed twice, a label without the date part, a title
\* cell without text and a row without title cell.
ProgrammeB ==
    << Bc(850, Label(<<"1", "4", ".", "1", "0", " ", "U", "h", "r">>), Elem(<<<<"X">>>>), Elem(<<<<"A">>>>)),
       Bc(850, Label(<<"1", "4", ".", "1", "0", " ", "U", "h", "r">>), Elem(<<<<"X">>>>), Elem(<<<<"A">>>>)),
       Bc(870, Elem(<<<<"1", "4", ".", "3", "0", " ", "U", "h", "r">>>>), Elem(<<<<"Y">>>>), Elem(<<<<"B">>>>)),
       Bc(860, Label(<<"1", "4", ".", "2", "0", " ", "U", "h", "r">>), Elem(<<<<" ">>>>), Elem(<<<<"B">>>>)),
       Bc(865, Label(<<"1", "4", ".", "2", "5", " ", "U", "h", "r">>), NoElem, Elem(<<<<"B">>>>)) >>

\* A day whose labels use the other accepted forms, and one, played at
\* 15:00, that is no time.
ProgrammeC ==
    << Bc(815, Label(<<"1", "3", ".", "3", "5", " ", "U", "h", "r">>), Elem(<<<<"X">>>>), Elem(<<<<"A">>>>)),
       Bc(815, Label(<<"1", ".", "3", "5", " ", "P", "M", " ", "U", "h", "r">>), Elem(<<<<"X">>>>), Elem(<<<<"A">>>>)),
       Bc(810, Label(<<"1", "3", ".", "3", "0", ".", "1", "5", " ", "U", "h", "r">>), Elem(<<<<"Y">>>>), Elem(<<<<"B">>>>)),
       Bc(900, Label(<<"2", "5", ".", "0", "0", " ", "U", "h", "r">>), Elem(<<<<"W">>>>), Elem(<<<<"D">>>>)) >>

\* A day with a label whose second is 61, played at 14:30, a label with
\* another date, a row whose handling raises, labels that are no time, a
\* regular row after them and a label without the date part.
ProgrammeD ==
    << Bc(870, Label(<<"1", "4", ".", "3", "0", ".", "6", "1", " ", "U", "h", "r">>), Elem(<<<<"V">>>>), Elem(<<<<"E">>>>)),
       Bc(855, LabelEve(<<"1", "4", ".", "1", "5", " ", "U", "h", "r">>), Elem(<<<<"X">>>>), Elem(<<<<"A">>>>)),
       BcRaising(850, Label(<<"1", "4", ".", "1", "0", " ", "U", "h", "r">>), Elem(<<<<"Y">>>>), Elem(<<<<"B">>>>)),
       Bc(845, Label(<<"1", "2", ".", "6", "0", " ", "U", "h", "r">>), Elem(<<<<"W">>>>), Elem(<<<<"D">>>>)),
       Bc(840, Label(<<"1", "3", ".", "0", "0", " ", "P", "M", " ", "U", "h", "r">>), Elem(<<<<"W">>>>), Elem(<<<<"D">>>>)),
       Bc(835, Label(<<"0", ".", "3", "0", " ", "A", "M", " ", "U", "h", "r">>), Elem(<<<<"W">>>>), Elem(<<<<"D">>>>)),
       Bc(830, Label(<<"a", "b", " ", "U", "h", "r">>), Elem(<<<<"W">>>>), Elem(<<<<"D">>>>)),
       Bc(825, Label(<<"1", "3", ".", "4", "5", " ", "U", "h", "r">>), Elem(<<<<"Z">>>>), Elem(<<<<"C">>>>)),
       Bc(820, Elem(<<<<"1", "3", ".", "4", "0", " ", "U", "h", "r">>>>), Elem(<<<<"U">>>>), Elem(<<<<"F">>>>)) >>

\* A day on which the origin has nothing.
ProgrammeE == <<>>

Schedules ==
    { [d \in Days |-> ProgrammeA],
      [d \in Days |-> ProgrammeB],
      [d \in Days |-> ProgrammeC],
      [d \in Days |-> ProgrammeD],
      [d \in Days |-> IF d = Today THEN ProgrammeA ELSE ProgrammeB],
      [d \in Days |-> IF d = Today THEN ProgrammeA ELSE ProgrammeE] }

\* argparse's namespace: 0 stands for an option that was not given.
Args(d, s, e, n) ==
    [date |-> d, start_date |-> s, end_date |-> e, days |-> n]

NoArgs == Args(0, 0, 0, 0)

CommandLines ==
    {Args(d, 0, 0, 0) : d \in Days}
        \cup {Args(0, s, e, 0) : s \in Days, e \in Days}
        \cup {Args(0, 0, 0, n) : n \in 1..MaxDaysArg}
        \cup {NoArgs}

\* The instant a command starts at: in the middle of an hour, or, for the
\* last hour of the day, in its last second.
StartInstant(h) ==
    IF h = HoursPerDay - 1
    THEN [day |-> Today, hour |-> h, minute |-> 59, second |-> 59,
          microsecond |-> 987654]
    ELSE [day |-> Today, hour |-> h, minute |-> 37, second |-> 12,
          microsecond |-> 123456]

\* The clock is in the last second of an hour.
LastSecond(now) == now.minute = 59 /\ now.second = 59

\* The start of the hour after now.
NextHour(now) ==
    [day    |-> IF now.hour + 1 < HoursPerDay THEN now.day ELSE now.day + 1,
     hour   |-> (now.hour + 1) % HoursPerDay,
     minute |-> 0,
     second |-> 0,
     microsecond |-> (now.microsecond + 271828) % 1000000]

\* The instant the clock shows at a later reading: a second later, which in
\* the last second of an hour is the start of the next hour.  Two readings
\* do not share their sub-second part.
Later(now) ==
    IF LastSecond(now) THEN {NextHour(now)}
    ELSE {[now EXCEPT !.second = @ + 1,
                      !.microsecond = (@ + 271828) % 1000000]}

\* The origin is out of reach during a whole call.
Outage == [h \in 0..(HoursPerDay - 1) |-> "error"]

\* What the hourly requests of one call may meet: nothing but regular pages,
\* or, while the budget lasts, one of FaultHours not getting the regular page,
\* or, the budget being untouched, an outage (which uses it up).
Outcomes(budget) ==
    IF budget <= 0 THEN {<<>>}
    ELSE {<<>>}
         \cup UNION { [{h} -> {"error", "notable"}] : h \in FaultHours }
         \cup (IF budget >= MaxFaults THEN {Outage} ELSE {})

\* The statements of one insert_songs call that raise another error than a
\* ConstraintException (the file cannot be written, the connection is lost):
\* none, or, while the budget lasts, the one for the first song of the list.
OtherErrors(budget) ==
    IF budget <= 0 THEN {{}} ELSE {{}, {1}}

(***************************************************************************)
(* python main.py <command>: the module is loaded, its import statements   *)
(* run, and main() parses the command line and calls the command.          *)
(***************************************************************************)
\* The names each module of src binds at its top level.
ModuleNames ==
    [scraper        |-> {"datetime", "timedelta", "List", "Dict", "Optional",
                         "requests", "BeautifulSoup", "time",
                         "CosmoPlaylistScraper"},
     database       |-> {"duckdb", "shutil", "datetime", "List", "Dict",
                         "Optional", "Path", "PlaylistDatabase"},
     analyzer       |-> {"datetime", "timedelta", "Dict", "Optional", "Tuple",
                         "List", "contextmanager", "duckdb", "pl",
                         "PlaylistAnalyzer", "test_analyzer"},
     genre_enricher |-> {"os", "re", "requests", "time", "Optional", "List",
                         "load_dotenv", "fuzz", "LastFmGenreEnricher",
                         "test_enricher"}]

\* main.py, lines 4-7: from <module> import <name>
MainImports ==
    << [module |-> "scraper",        name |-> "CosmoPlaylistScraper"],
       [module |-> "database",       name |-> "PlaylistDatabase"],
       [module |-> "analyzer",       name |-> "PlaylistAnalyzer"],
       [module |-> "genre_enricher", name |-> "MusicBrainzGenreEnricher"] >>

\* from m import n raises ImportError when m binds no n.
ImportError(import) == import.name \notin ModuleNames[import.module]

\* The subcommands main() registers, lines 257-339.
Commands ==
    {"scrape", "top-day", "top-week", "top-month", "top-range", "top-artists",
     "top-songs", "stats", "enrich-genres"}

\* The status of a process that ends with an uncaught exception.
ExitUncaught == 1

(***************************************************************************)
(* The state machine: the scrape command, run on one database file and     *)
(* then run again with the same arguments (a scheduled job).               *)
(***************************************************************************)
Init ==
    /\ clock \in {StartInstant(h) : h \in StartHours}
    /\ broadcasts \in Schedules
    /\ db = <<>>
    /\ pc = "idle"
    /\ args = NoArgs
    /\ current_date = NoneDate
    /\ end_date = NoneDate
    /\ songs = <<>>
    /\ calls = <<>>
    /\ inserted = 0
    /\ db_before = <<>>
    /\ ingested = {}
    /\ runs = 0
    /\ faults = 0
    /\ insert_errors = <<>>
    /\ exited = Null
    /\ lookup = Null

EventsOf(list) ==
    { <<list[i].artist, list[i].title, list[i].time, list[i].date>> :
        i \in 1..Len(list) }

\* DaysStart going back N days from today.
DaysStartOneMore(now, days) == PlusDays(now, -days)

\* cmd_scrape, line 61: start = end - timedelta(days=args.days - 1)
DaysStart(now, days) == PlusDays(now, -(days - 1))

\* cmd_scrape, lines 47-66, up to the call of the scraper: which dates to
\* fetch.  now is what datetime.now() returns on line 60.
Scrape(a, now) ==
    /\ runs' = runs + 1
    /\ args' = a
    /\ clock' = now
    /\ songs' = <<>>
    /\ calls' = <<>>
    /\ ingested' = ingested \cup EventsOf(songs)
    /\ insert_errors' = <<>>
    /\ IF a.date # 0
       THEN /\ pc' = "single"
            /\ current_date' = DateFromArg(a.date)
            /\ end_date' = NoneDate
       ELSE IF a.start_date # 0 /\ a.end_date # 0
       THEN /\ pc' = "range"
            /\ current_date' = DateFromArg(a.start_date)
            /\ end_date' = DateFromArg(a.end_date)
       ELSE IF a.days # 0
       THEN /\ pc' = "range"
            /\ current_date' = DaysStart(now, a.days)
            /\ end_date' = now
       ELSE /\ pc' = "single"
            /\ current_date' = NoneDate
            /\ end_date' = NoneDate
    /\ UNCHANGED <<broadcasts, db, inserted, db_before, faults, exited, lookup>>

\* A process is started from the command line.  The import statements of
\* main.py run first; an ImportError ends the process with a traceback.
\* Otherwise main() is entered and calls the function of the command.
main ==
    /\ pc = "idle"
    /\ exited = Null
    /\ \E command \in Commands :
          IF \E i \in 1..Len(MainImports) : ImportError(MainImports[i])
          THEN /\ exited' = [command |-> command, status |-> ExitUncaught]
               /\ pc' = "exited"
          ELSE /\ exited' = [command |-> command, status |-> "running"]
               /\ pc' = pc
    /\ UNCHANGED <<clock, broadcasts, db, args, current_date, end_date, songs,
                   calls, inserted, db_before, ingested, runs, faults,
                   insert_errors, lookup>>

\* The command is started.
cmd_scrape ==
    /\ pc = "idle"
    /\ \E a \in CommandLines : Scrape(a, clock)

\* The command is started again, later, with the same arguments.
cmd_scrape_again ==
    /\ pc = "closed"
    /\ runs < MaxRuns
    /\ \E now \in Later(clock) : Scrape(args, now)

\* The clock readings one fetch_playlist call makes on lines 39 and 40: in
\* the last second of an hour, the hour may turn before either of them.
Readings ==
    {<<clock, clock>>}
        \cup (IF LastSecond(clock)
              THEN {<<clock, NextHour(clock)>>, <<NextHour(clock), NextHour(clock)>>}
              ELSE {})

\* What a fetch_playlist call leaves behind besides its result.
Fetched(call, outcomes) ==
    /\ clock' = call.now40
    /\ faults' = IF DOMAIN outcomes = {} THEN faults
                 ELSE IF outcomes = Outage THEN MaxFaults
                 ELSE faults + 1
    /\ calls' = Append(calls, call)

\* cmd_scrape, lines 53 and 66: songs = scraper.fetch_playlist(date)
FetchSingle ==
    /\ pc = "single"
    /\ \E outcomes \in Outcomes(MaxFaults - faults) :
       \E r \in Readings :
       \E call \in {fetch_playlist(current_date, clock, r[1], r[2], outcomes,
                                  broadcasts)} :
          /\ Fetched(call, outcomes)
          /\ songs' = call.result
    /\ pc' = "scraped"
    /\ UNCHANGED <<broadcasts, db, args, current_date, end_date, inserted,
                   db_before, ingested, runs, insert_errors, exited, lookup>>

\* RangeExtend giving up what was collected when a day yields nothing.
RangeExtendDropOnEmpty(all_songs, day_songs) ==
    IF day_songs = <<>> THEN <<>> ELSE all_songs \o day_songs

\* fetch_date_range, line 210: all_songs.extend(songs)
RangeExtend(all_songs, day_songs) == all_songs \o day_songs

\* fetch_date_range, lines 208-213: one pass of the loop.
RangeIter ==
    /\ pc = "range"
    /\ DtLeq(current_date, end_date)
    /\ \E outcomes \in Outcomes(MaxFaults - faults) :
       \E r \in Readings :
       \E call \in {fetch_playlist(current_date, clock, r[1], r[2], outcomes,
                                  broadcasts)} :
          /\ Fetched(call, outcomes)
          /\ songs' = RangeExtend(songs, call.result)
    /\ current_date' = PlusDays(current_date, 1)
    /\ UNCHANGED <<broadcasts, db, pc, args, end_date, inserted, db_before,
                   ingested, runs, insert_errors, exited, lookup>>

\* fetch_date_range, lines 208 and 215: the loop ends, all_songs is returned.
RangeReturn ==
    /\ pc = "range"
    /\ ~DtLeq(current_date, end_date)
    /\ pc' = "scraped"
    /\ UNCHANGED <<clock, broadcasts, db, args, current_date, end_date, songs,
                   calls, inserted, db_before, ingested, runs, faults,
                   insert_errors, exited, lookup>>

\* What an insert_songs call leaves behind: the table, the returned count
\* and the record of the statements that raised another error.
Inserted(st, failing) ==
    /\ db' = st.table
    /\ inserted' = st.inserted
    /\ insert_errors' = Append(insert_errors, failing)
    /\ faults' = IF failing = {} THEN faults ELSE faults + 1

\* cmd_scrape, lines 68-75: the songs are stored, if there are any.
Store ==
    /\ pc = "scraped"
    /\ pc' = "closed"
    /\ db_before' = db
    /\ IF songs # <<>>
       THEN \E failing \in OtherErrors(MaxFaults - faults) :
            \E st \in {insert_songs(db, songs, failing)} :
               Inserted(st, failing)
       ELSE /\ db' = db
            /\ inserted' = 0
            /\ UNCHANGED <<faults, insert_errors>>
    /\ UNCHANGED <<clock, broadcasts, args, current_date, end_date, songs,
                   calls, ingested, runs, exited, lookup>>

\* A caller hands the list just stored to insert_songs once more.
InsertAgain ==
    /\ pc = "closed"
    /\ songs # <<>>
    /\ pc' = "reinserted"
    /\ db_before' = db
    /\ \E failing \in OtherErrors(MaxFaults - faults) :
       \E st \in {insert_songs(db, songs, failing)} :
          Inserted(st, failing)
    /\ UNCHANGED <<clock, broadcasts, args, current_date, end_date, songs,
                   calls, ingested, runs, exited, lookup>>

Next ==
    \/ main
    \/ cmd_scrape
    \/ cmd_scrape_again
    \/ FetchSingle
    \/ RangeIter
    \/ RangeReturn
    \/ Store
    \/ InsertAgain

Spec == Init /\ [][Next]_vars

\* A pass of the loop of fetch_date_range has been made: RangeIter is the
\* one action that moves current_date on while the loop runs.
RangePassed == pc = "range" /\ current_date' = PlusDays(current_date, 1)

\* Weak fairness of RangeIter, with ENABLED <<RangeIter>>_vars written out:
\* the action is enabled exactly when its two guards hold, whatever the
\* requests of the pass meet.
RangeIterFair ==
    \/ []<>(~(pc = "range" /\ DtLeq(current_date, end_date)))
    \/ []<><<RangePassed>>_vars

\* fetch_date_range runs in the thread of the command: while the command
\* runs, the next pass of its loop, or its return, is taken.
FairSpec == Spec /\ RangeIterFair /\ WF_vars(RangeReturn)

(***************************************************************************)
(* The genre lookup: one lookup_genre call, for an artist and a title,     *)
(* against a service whose responses are given.                            *)
(***************************************************************************)
GenreArtists ==
    { <<"A">>,
      <<"A", " ", "&", " ", "B">>,
      <<"A", " ", "F", "e", "a", "t", ".", " ", "B">>,
      <<" ", "A">> }

GenreTitles ==
    { <<"S">>,
      <<"S", " ", "(", "L", "i", "v", "e", ")">>,
      <<"S", " ", "-", " ", "r", "e", "m", "i", "x">>,
      <<"S", " ", "(", "f", "t", " ", "B", ")", " ", "(", "2", "0", "2", "1",
        " ", "R", "e", "m", "a", "s", "t", "e", "r", ")">>,
      <<"S", " ">> }

Tag(name, count) == [name |-> name, count |-> count]

RFailed == [kind |-> "failed", single |-> FALSE, tag |-> <<>>]

RError == [kind |-> "error", single |-> FALSE, tag |-> <<>>]

\* Tags none of which counts.
RZero ==
    [kind |-> "ok", single |-> FALSE,
     tag |-> <<Tag(<<"x">>, 0), Tag(<<"y">>, 0)>>]

\* One tag, not in a list.
RSingle == [kind |-> "ok", single |-> TRUE, tag |-> Tag(<<"p", "o", "p">>, 7)]

\* More tags than are kept, one of them not counting.
RMany ==
    [kind |-> "ok", single |-> FALSE,
     tag |-> <<Tag(<<"a">>, 100), Tag(<<"b">>, 0), Tag(<<"c">>, 80),
               Tag(<<"d">>, 50), Tag(<<"e">>, 9), Tag(<<"f">>, 3),
               Tag(<<"g">>, 1)>>]

\* The responses to the requests of one call, in the order of the requests.
GenreResponses ==
    [1..5 -> {RFailed, RMany}]
        \cup {[k \in 1..5 |-> r] : r \in {RError, RZero, RSingle}}
        \cup {[k \in 1..5 |-> IF k = 1 THEN RZero ELSE RSingle]}

InitGenre ==
    /\ lookup \in [artist : GenreArtists, title : GenreTitles,
                   responses : GenreResponses, done : {FALSE}]
    /\ clock = StartInstant(SetMin(StartHours))
    /\ broadcasts = [d \in Days |-> ProgrammeE]
    /\ db = <<>>
    /\ pc = "idle"
    /\ args = NoArgs
    /\ current_date = NoneDate
    /\ end_date = NoneDate
    /\ songs = <<>>
    /\ calls = <<>>
    /\ inserted = 0
    /\ db_before = <<>>
    /\ ingested = {}
    /\ runs = 0
    /\ faults = 0
    /\ insert_errors = <<>>
    /\ exited = Null

\* What a lookup_genre call leaves behind: the requests it made and what it
\* returned.
Looked(returned) ==
    lookup' = [artist    |-> lookup.artist,
               title     |-> lookup.title,
               responses |-> lookup.responses,
               done      |-> TRUE,
               requests  |-> returned.requests,
               none      |-> returned.none,
               genre     |-> returned.genre]

\* enrich_songs, line 293: genre = self.lookup_genre(artist, title)
LookupGenre ==
    /\ lookup # Null
    /\ ~lookup.done
    /\ \E returned \in {lookup_genre(lookup.artist, lookup.title, lookup.responses)} :
          Looked(returned)
    /\ UNCHANGED <<clock, broadcasts, db, pc, args, current_date, end_date,
                   songs, calls, inserted, db_before, ingested, runs, faults,
                   insert_errors, exited>>

NextGenre == LookupGenre

SpecGenre == InitGenre /\ [][NextGenre]_vars

(***************************************************************************)
(* The claims.                                                             *)
(***************************************************************************)
CallIds == 1..Len(calls)

HoursAsked(call) == [i \in 1..Len(call.queries) |-> call.queries[i].form_data.hours]

KeysFound(call, q) ==
    {SongKey(call.queries[q].found[k]) : k \in 1..Len(call.queries[q].found)}

NoFault(call) ==
    \A q \in 1..Len(call.queries) : call.queries[q].outcome = "ok"

\* C1: the list one fetch_playlist call returns holds no two events with the
\* same (artist, title, time), whatever the hourly requests returned.
C1_NoDuplicateKeys ==
    \A c \in CallIds :
       \A i, j \in 1..Len(calls[c].result) :
          i # j => SongKey(calls[c].result[i]) # SongKey(calls[c].result[j])

\* C1's case: one page listed an event twice, and two consecutive hours
\* returned the same event.
C1_Witness ==
    \E c \in CallIds :
       /\ \E q \in 1..Len(calls[c].queries) :
             \E i, j \in 1..Len(calls[c].queries[q].found) :
                /\ i # j
                /\ SongKey(calls[c].queries[q].found[i])
                     = SongKey(calls[c].queries[q].found[j])
       /\ \E q \in 1..(Len(calls[c].queries) - 1) :
             KeysFound(calls[c], q) \cap KeysFound(calls[c], q + 1) # {}

\* C2, as claimed: for a date that is not today, every request returning the
\* rows played within 30 minutes of its hour, the call returns every event
\* of the day.
C2_WindowCoverage ==
    \A c \in CallIds :
       (~calls[c].is_today /\ NoFault(calls[c])
          /\ calls[c].date.day \in Days /\ calls[c].date.day < calls[c].now40.day)
       => \A b \in 1..Len(broadcasts[calls[c].date.day]) :
             RowAccepted(broadcasts[calls[c].date.day][b].row)
             => \E i \in 1..Len(calls[c].result) :
                   calls[c].result[i]
                     = SongData(broadcasts[calls[c].date.day][b].row, calls[c].date)

\* C3: a call for today issues the queries for the hours 0..h in this order,
\* h + 1 of them, h being the hour the clock shows on line 40.
C3_TodayHours ==
    \A c \in CallIds :
       calls[c].is_today
       => HoursAsked(calls[c]) = [i \in 1..(calls[c].now40.hour + 1) |-> i - 1]

\* C3's case: a call for today at 14:37 has issued its 15 queries.
C3_Witness ==
    \E c \in CallIds :
       /\ calls[c].is_today
       /\ calls[c].now40.hour = 14
       /\ calls[c].now40.minute = 37
       /\ Len(calls[c].queries) = 15

\* C4: a call for a date that is not today issues 24 queries, for the hours
\* 0..23 in ascending order, each with minute 0 and the target date, also
\* when requests failed or returned nothing.
C4_AllHours ==
    \A c \in CallIds :
       ~calls[c].is_today
       => /\ Len(calls[c].queries) = 24
          /\ \A i \in 1..Len(calls[c].queries) :
                calls[c].queries[i].form_data
                  = [date |-> calls[c].date.day, hours |-> i - 1, minutes |-> 0]

\* C4's case: a call for a past date in which one request failed, an earlier
\* one returned nothing and a later one returned songs.
C4_Witness ==
    \E c \in CallIds :
       /\ ~calls[c].is_today
       /\ \E q1, q2, q3 \in 1..Len(calls[c].queries) :
             /\ q1 < q2
             /\ q2 < q3
             /\ calls[c].queries[q1].outcome = "ok"
             /\ calls[c].queries[q1].found = <<>>
             /\ calls[c].queries[q2].outcome = "error"
             /\ calls[c].queries[q3].found # <<>>

\* C5: the list a call returns is in ascending order of the timestamp text,
\* and no event with a timestamp comes before one without.
C5_SortedByTimestamp ==
    \A c \in CallIds :
       \A i, j \in 1..Len(calls[c].result) :
          i < j
          => /\ ~IsoLess(calls[c].result[j].datetime, calls[c].result[i].datetime)
             /\ calls[c].result[j].datetime = <<>>
                  => calls[c].result[i].datetime = <<>>

\* C5's case: the events were merged in another order than the one returned,
\* one without timestamp among them.
C5_Witness ==
    \E c \in CallIds :
       /\ calls[c].merged # calls[c].result
       /\ \E i, j \in 1..Len(calls[c].result) :
             /\ calls[c].result[i].datetime = <<>>
             /\ calls[c].result[j].datetime # <<>>

\* C6: whatever a day's requests return appears in the output of the command
\* exactly once with that day's date, however often other days of the range
\* returned the same (artist, title, time).
C6_SeenScopedToDay ==
    \A c \in CallIds :
       \A q \in 1..Len(calls[c].queries) :
          \A key \in KeysFound(calls[c], q) :
             Cardinality({i \in 1..Len(songs) :
                            /\ SongKey(songs[i]) = key
                            /\ songs[i].date = Strftime(calls[c].date)}) = 1

\* C6's case: two days of one range returned the same key, and the output
\* holds it twice.
C6_Witness ==
    \E c, d \in CallIds :
       /\ c < d
       /\ calls[c].date.day # calls[d].date.day
       /\ \E i, j \in 1..Len(songs) :
             /\ i < j
             /\ SongKey(songs[i]) = SongKey(songs[j])
             /\ songs[i].date = calls[c].date.day
             /\ songs[j].date = calls[d].date.day

RangeMode == args.date = 0 /\ ((args.start_date # 0 /\ args.end_date # 0) \/ args.days # 0)

RangeStartDay ==
    IF args.start_date # 0 /\ args.end_date # 0 THEN args.start_date
    ELSE end_date.day - (args.days - 1)

RECURSIVE Concat(_)
Concat(lists) == IF lists = <<>> THEN <<>> ELSE Head(lists) \o Concat(Tail(lists))

\* C7: fetch_date_range has called fetch_playlist once for each day from start
\* to end, in ascending order, and returns the results concatenated in that
\* order; for start > end it calls nothing and returns the empty list.
C7_RangeCalls ==
    (RangeMode /\ pc \in {"scraped", "closed", "reinserted"})
    => /\ Len(calls) = IF end_date.day >= RangeStartDay
                       THEN end_date.day - RangeStartDay + 1 ELSE 0
       /\ \A c \in CallIds : calls[c].date.day = RangeStartDay + c - 1
       /\ songs = Concat([c \in CallIds |-> calls[c].result])

\* C7's case: a range of two days has been collected, both days with songs.
C7_Witness ==
    /\ RangeMode
    /\ pc = "scraped"
    /\ Len(calls) = 2
    /\ calls[1].result # <<>>
    /\ calls[2].result # <<>>

AllParsed(list) == \A i \in 1..Len(list) : list[i].datetime # <<>>

C9_RescrapeRejected ==
    (pc = "closed" /\ runs >= 2 /\ faults = 0
       /\ clock.day = Today /\ clock.hour \in StartHours)
    => \A i \in (Len(db_before) + 1)..Len(db) :
          db[i].datetime # Null
          => <<db[i].artist, db[i].title, db[i].time, db[i].date>> \notin ingested

\* C10, as claimed: every event _parse_playlist extracts has an artist and a
\* title that are not empty.
C10_NoEmptyField ==
    \A c \in CallIds :
       \A q \in 1..Len(calls[c].queries) :
          \A k \in 1..Len(calls[c].queries[q].found) :
             /\ calls[c].queries[q].found[k].artist # <<>>
             /\ calls[c].queries[q].found[k].title # <<>>

\* C11, as claimed: every request of a call is followed by the delay, the
\* failed ones too.
C11_DelayAfterEveryCall ==
    \A c \in CallIds :
       \A q \in 1..Len(calls[c].queries) : calls[c].queries[q].slept

InResult(call, song) == \E i \in 1..Len(call.result) : call.result[i] = song

\* C12: a request that fails yields no songs and ends nothing: the call
\* still makes the query of every hour, and every song any of its queries
\* found, before or after the failure, is in the list it returns.
C12_FailureIsEmptyPage ==
    \A c \in CallIds :
       \A q \in 1..Len(calls[c].queries) :
          calls[c].queries[q].outcome = "error"
          => /\ calls[c].queries[q].found = <<>>
             /\ Len(calls[c].queries)
                  = IF calls[c].is_today THEN calls[c].now40.hour + 1 ELSE 24
             /\ \A p \in 1..Len(calls[c].queries) :
                   \A k \in 1..Len(calls[c].queries[p].found) :
                      InResult(calls[c], calls[c].queries[p].found[k])

\* C12's case: a request failed after an hour that had returned songs and
\* before one that returned songs.
C12_Witness ==
    \E c \in CallIds :
       \E q1, q2, q3 \in 1..Len(calls[c].queries) :
          /\ q1 < q2
          /\ q2 < q3
          /\ calls[c].queries[q1].found # <<>>
          /\ calls[c].queries[q2].outcome = "error"
          /\ calls[c].queries[q3].found # <<>>
          /\ InResult(calls[c], calls[c].queries[q1].found[1])

FoundNothing(call) ==
    \A q \in 1..Len(call.queries) : call.queries[q].found = <<>>

\* C13: when fetch_date_range has returned, a day whose requests all failed
\* or returned nothing has contributed no event, every day of the range has
\* been collected, and the events of every other day are in the output.
C13_EmptyDayGoesOn ==
    (RangeMode /\ pc \in {"scraped", "closed", "reinserted"})
    => \A c \in CallIds :
          FoundNothing(calls[c])
          => /\ calls[c].result = <<>>
             /\ \A i \in 1..Len(songs) : songs[i].date # Strftime(calls[c].date)
             /\ Len(calls) = IF end_date.day >= RangeStartDay
                             THEN end_date.day - RangeStartDay + 1 ELSE 0
             /\ \A d \in CallIds :
                   \A k \in 1..Len(calls[d].result) :
                      \E i \in 1..Len(songs) : songs[i] = calls[d].result[k]

\* C13's case: a range of two days, the origin having nothing for the first
\* day and the second day returning songs.
C13_Witness ==
    /\ RangeMode
    /\ pc = "scraped"
    /\ Len(calls) = 2
    /\ NoFault(calls[1])
    /\ FoundNothing(calls[1])
    /\ calls[2].result # <<>>
    /\ songs = calls[2].result

\* C13's other case: every request of the first day failed, the second day
\* returned songs.
C13_WitnessOutage ==
    /\ RangeMode
    /\ pc = "scraped"
    /\ Len(calls) = 2
    /\ \A q \in 1..Len(calls[1].queries) : calls[1].queries[q].outcome = "error"
    /\ calls[2].result # <<>>
    /\ songs = calls[2].result

\* The songs the queries of the calls found, as [c, song], c being the
\* number of the call.
FoundSongs ==
    UNION { UNION { { [c |-> c, song |-> calls[c].queries[q].found[k]] :
                        k \in 1..Len(calls[c].queries[q].found) } :
                    q \in 1..Len(calls[c].queries) } :
            c \in CallIds }

\* strptime accepts the text under one of the formats.
AcceptedTime(text) ==
    \E i \in 1..Len(TimeFormats) : Strptime(text, TimeFormats[i]).ok

\* C14: _parse_timestamp gives the empty text for an empty time string and
\* for every time string that none of the formats accepts.
C14_AbsentForNoTime ==
    \A f \in FoundSongs :
       (f.song.time = <<>> \/ ~AcceptedTime(f.song.time))
       => f.song.datetime = <<>>

\* C14's case: one page gave a row with an empty time string and a row with
\* a time string that is no time, both without timestamp.
C14_Witness ==
    \E f, g \in FoundSongs :
       /\ f.song.time = <<>>
       /\ f.song.datetime = <<>>
       /\ g.song.time = <<"1", "2", ":", "6", "0">>
       /\ g.song.datetime = <<>>

\* What strptime yields under the first of the formats that accepts the text.
FirstAccepted(text) ==
    Strptime(text,
             TimeFormats[SetMin({i \in 1..Len(TimeFormats) :
                                    Strptime(text, TimeFormats[i]).ok})])

\* The ISO text of the instant: day, hour, minute, second, no sub-second part.
InstantText(day, time_obj) ==
    <<day, time_obj.hour, time_obj.minute, time_obj.second>>

\* C15, as claimed: for a time string one of the formats accepts, the
\* timestamp is the query date's day at the hour, minute and second of the
\* first format that accepts it, without sub-second part, whatever the time
\* of day of the query date.
C15_ExactInstant ==
    \A f \in FoundSongs :
       AcceptedTime(f.song.time)
       => f.song.datetime
            = InstantText(calls[f.c].date.day, FirstAccepted(f.song.time))

\* The timestamp of the song is on the day of its date field, at the hour
\* and minute of time_obj.
ConsistentWith(song, time_obj) ==
    /\ song.datetime[1] = song.date
    /\ song.datetime[2] = time_obj.hour
    /\ song.datetime[3] = time_obj.minute

\* C16: every extracted event with a timestamp has the timestamp's day equal
\* to its date field, and the timestamp's hour and minute equal to the hour
\* and minute its time field denotes.
C16_TimestampConsistent ==
    \A f \in FoundSongs :
       f.song.datetime # <<>>
       => /\ AcceptedTime(f.song.time)
          /\ ConsistentWith(f.song, FirstAccepted(f.song.time))

\* C16's case: an event with the time 1:35 PM, extracted for a query date
\* that has a time of day of its own, has a timestamp at 13:35.
C16_Witness ==
    \E f \in FoundSongs :
       /\ f.song.time = <<"1", ":", "3", "5", " ", "P", "M">>
       /\ calls[f.c].date.minute # 0
       /\ f.song.datetime # <<>>
       /\ f.song.datetime[2] = 13
       /\ f.song.datetime[3] = 35

\* C15 for the query dates the command line gives: there the timestamp is
\* the exact instant.
ExactInstantForArgDates ==
    \A f \in FoundSongs :
       (AcceptedTime(f.song.time) /\ calls[f.c].date.microsecond = 0)
       => f.song.datetime
            = InstantText(calls[f.c].date.day, FirstAccepted(f.song.time))

\* C17: every event a fetch_playlist call returns has the call's date as its
\* date field and as the day of its timestamp, whatever date the row's label
\* carries.
C17_DateFromQuery ==
    \A c \in CallIds :
       \A i \in 1..Len(calls[c].result) :
          /\ calls[c].result[i].date = Strftime(calls[c].date)
          /\ calls[c].result[i].datetime # <<>>
             => calls[c].result[i].datetime[1] = calls[c].date.day

\* C17's case: a call returned the event of a row whose label carries another
\* date than the other rows, with the time of that label and the call's date.
C17_Witness ==
    \E c \in CallIds :
       \E i, j \in 1..Len(calls[c].result) :
          /\ calls[c].result[i].time = <<"1", "4", ":", "1", "5">>
          /\ calls[c].result[i].date = calls[c].date.day
          /\ calls[c].result[i].datetime[1] = calls[c].date.day
          /\ calls[c].result[i].datetime[2] = 14
          /\ calls[c].result[i].datetime[3] = 15
          /\ calls[c].result[j].time = <<"1", "3", ":", "4", "5">>
          /\ calls[c].result[j].date = calls[c].date.day

\* C18: an event whose time label gave no timestamp is in the list the call
\* returns exactly once, without timestamp, however many of the call's
\* queries returned it.
C18_UnparsedKeptOnce ==
    \A f \in FoundSongs :
       f.song.datetime = <<>>
       => /\ Cardinality({i \in 1..Len(calls[f.c].result) :
                            SongKey(calls[f.c].result[i]) = SongKey(f.song)}) = 1
          /\ \A i \in 1..Len(calls[f.c].result) :
                SongKey(calls[f.c].result[i]) = SongKey(f.song)
                => calls[f.c].result[i] = f.song

\* C18's case: two different queries of a call returned an event whose time
\* label is no time, and the call's result holds it.
C18_Witness ==
    \E c \in CallIds :
       \E q1, q2 \in 1..Len(calls[c].queries) :
          /\ q1 < q2
          /\ \E k1 \in 1..Len(calls[c].queries[q1].found) :
             \E k2 \in 1..Len(calls[c].queries[q2].found) :
                /\ calls[c].queries[q1].found[k1] = calls[c].queries[q2].found[k2]
                /\ calls[c].queries[q1].found[k1].time # <<>>
                /\ calls[c].queries[q1].found[k1].datetime = <<>>
                /\ InResult(calls[c], calls[c].queries[q1].found[k1])

\* C19: a page without the playlist table yields no songs, whatever rows it
\* holds, and ends nothing: the call makes the query of every hour, every
\* song its queries found is in its result, and a range collects all its days.
C19_NoTableIsEmptyPage ==
    \A c \in CallIds :
       \A q \in 1..Len(calls[c].queries) :
          calls[c].queries[q].outcome = "notable"
          => /\ calls[c].queries[q].found = <<>>
             /\ Len(calls[c].queries)
                  = IF calls[c].is_today THEN calls[c].now40.hour + 1 ELSE 24
             /\ \A p \in 1..Len(calls[c].queries) :
                   \A k \in 1..Len(calls[c].queries[p].found) :
                      InResult(calls[c], calls[c].queries[p].found[k])
             /\ (RangeMode /\ pc \in {"scraped", "closed", "reinserted"})
                => Len(calls) = IF end_date.day >= RangeStartDay
                                THEN end_date.day - RangeStartDay + 1 ELSE 0

\* C19's case: in a range of two days, a page of the first day had rows but
\* no table, a later query of that day returned songs, and the second day
\* returned songs.
C19_Witness ==
    /\ RangeMode
    /\ pc = "scraped"
    /\ Len(calls) = 2
    /\ calls[2].result # <<>>
    /\ \E q1, q2 \in 1..Len(calls[1].queries) :
          /\ q1 < q2
          /\ calls[1].queries[q1].outcome = "notable"
          /\ PageRows(calls[1].queries[q1].form_data, broadcasts,
                      calls[1].now40) # <<>>
          /\ calls[1].queries[q2].found # <<>>
          /\ InResult(calls[1], calls[1].queries[q2].found[1])

\* A row that is handled without an exception and has both cells.
KeptRow(row) == ~RowRaises(row) /\ RowAccepted(row)

\* The (artist, title) a row gives.
RowKey(row) == <<GetText(row.performer), GetText(row.title)>>

\* The (artist, title) of the kept rows of a page, in page order.
KeysOfKept(kept) == [i \in 1..Len(kept) |-> RowKey(kept[i])]

\* The (artist, title) of the songs of a list, in order.
KeysOfSongs(list) == [k \in 1..Len(list) |-> <<list[k].artist, list[k].title>>]

\* C20: the songs extracted from a page are, by artist and title, those of
\* all its rows that are handled without an exception (and have both cells),
\* in page order: a row whose handling raises is left out and no other row
\* with it.
C20_RowErrorSkipsRow ==
    \A c \in CallIds :
       \A q \in 1..Len(calls[c].queries) :
          calls[c].queries[q].outcome = "ok"
          => KeysOfSongs(calls[c].queries[q].found)
               = KeysOfKept(SelectSeq(PageRows(calls[c].queries[q].form_data,
                                               broadcasts, calls[c].now40),
                                      KeptRow))

\* C20's case: a page had a row whose handling raised between two regular
\* rows, and both of these were extracted.
C20_Witness ==
    \E c \in CallIds :
       \E q \in 1..Len(calls[c].queries) :
          \E r1, r2, r3 \in 1..Len(PageRows(calls[c].queries[q].form_data,
                                           broadcasts, calls[c].now40)) :
             /\ r1 < r2
             /\ r2 < r3
             /\ calls[c].queries[q].outcome = "ok"
             /\ KeptRow(PageRows(calls[c].queries[q].form_data, broadcasts,
                                 calls[c].now40)[r1])
             /\ RowRaises(PageRows(calls[c].queries[q].form_data, broadcasts,
                                   calls[c].now40)[r2])
             /\ KeptRow(PageRows(calls[c].queries[q].form_data, broadcasts,
                                 calls[c].now40)[r3])
             /\ \E k \in 1..Len(calls[c].queries[q].found) :
                   <<calls[c].queries[q].found[k].artist,
                     calls[c].queries[q].found[k].title>>
                     = RowKey(PageRows(calls[c].queries[q].form_data,
                                       broadcasts, calls[c].now40)[r3])


\* An insert_songs call has returned: it was handed songs, found the table
\* db_before, left the table db and returned inserted.
AfterInsert == pc \in {"closed", "reinserted"} /\ insert_errors # <<>>

LastFailing == insert_errors[Len(insert_errors)]

SameUnique(a, b) ==
    /\ a.artist = b.artist
    /\ a.title = b.title
    /\ CastTimestamp(a.datetime) = CastTimestamp(b.datetime)

\* The song at position i meets a stored row with its artist, title and
\* timestamp: a row of the table as found, or an earlier song of the list.
Rejected(i) ==
    /\ songs[i].datetime # <<>>
    /\ i \notin LastFailing
    /\ \/ \E r \in 1..Len(db_before) :
             /\ db_before[r].artist = songs[i].artist
             /\ db_before[r].title = songs[i].title
             /\ db_before[r].datetime = CastTimestamp(songs[i].datetime)
       \/ \E j \in 1..(i - 1) : j \notin LastFailing /\ SameUnique(songs[j], songs[i])

StoredPositions ==
    {i \in 1..Len(songs) : i \notin LastFailing /\ ~Rejected(i)}

RowOf(song, r) ==
    /\ db[r].artist = song.artist
    /\ db[r].title = song.title
    /\ db[r].time = song.time
    /\ db[r].date = song.date
    /\ db[r].datetime = CastTimestamp(song.datetime)

\* C21: an insert_songs call returns whatever single statements raise: a song
\* meeting the uniqueness constraint is skipped, a song whose statement raises
\* another error is skipped, every other song of the list is stored, and the
\* returned count is the number of rows added.
C21_SkipsAndCounts ==
    AfterInsert
    => /\ inserted = Cardinality(StoredPositions)
       /\ Len(db) = Len(db_before) + inserted
       /\ \A i \in StoredPositions :
             \E r \in (Len(db_before) + 1)..Len(db) : RowOf(songs[i], r)

\* C21's case: the first statement raised another error, a later song was
\* rejected by the constraint, and a song after that one was stored.
C21_Witness ==
    /\ AfterInsert
    /\ LastFailing = {1}
    /\ \E i, k \in 1..Len(songs) :
          /\ i < k
          /\ Rejected(i)
          /\ k \in StoredPositions
    /\ inserted >= 2


\* C27: the ids of the stored rows are pairwise distinct, and the rows an
\* insert_songs call adds carry, in the order they were added, the ids
\* following the largest id the table held before: a song that is rejected
\* or whose statement raises uses up no id.
C27_IdsDistinctAndDense ==
    /\ \A i, j \in 1..Len(db) : i # j => db[i].id # db[j].id
    /\ AfterInsert
       => \A k \in 1..(Len(db) - Len(db_before)) :
             db[Len(db_before) + k].id
               = k + (IF db_before = <<>> THEN 0
                      ELSE SetMax({db_before[r].id : r \in 1..Len(db_before)}))

\* C27's case: the table held rows, the first statement raised another
\* error, a song was rejected and songs after it were stored.
C27_Witness ==
    /\ AfterInsert
    /\ db_before # <<>>
    /\ LastFailing = {1}
    /\ \E i, k \in 1..Len(songs) :
          /\ i < k
          /\ Rejected(i)
          /\ k \in StoredPositions

\* C28: an insert_songs call only adds rows: the rows the table held before
\* are still there, unchanged and in place, the count has grown by the
\* returned number, and the verification that follows reports no loss.
C28_OnlyAdds ==
    AfterInsert
    => /\ Len(db) = Len(db_before) + inserted
       /\ SubSeq(db, 1, Len(db_before)) = db_before
       /\ verify_data_integrity(Len(db_before), Len(db))

\* C28's case: the table held rows, and of the songs handed in some were
\* stored, one was rejected and one raised another error.
C28_Witness ==
    /\ AfterInsert
    /\ db_before # <<>>
    /\ inserted >= 1
    /\ LastFailing # {}
    /\ \E i \in 1..Len(songs) : Rejected(i)

\* C25, as claimed: the table never holds two rows with the same artist, the
\* same title and no timestamp.
C25_UniqueWithoutTimestamp ==
    \A i, j \in 1..Len(db) :
       (/\ i # j
        /\ db[i].artist = db[j].artist
        /\ db[i].title = db[j].title
        /\ db[i].datetime = Null)
       => db[j].datetime # Null

\* C26, as claimed: the list one fetch_playlist call returned, every event
\* with a timestamp, handed to insert_songs on an empty table, no statement
\* raising another error, is stored whole.
C26_KeysAgree ==
    (/\ pc = "closed"
     /\ Len(calls) = 1
     /\ songs # <<>>
     /\ AllParsed(songs)
     /\ db_before = <<>>
     /\ insert_errors = <<{}>>)
    => /\ inserted = Len(songs)
       /\ Len(db) = Len(songs)


\* The positions of a sequence of keys that hold a key for the first time.
FirstPositions(keys) ==
    {p \in 1..Len(keys) : \A r \in 1..(p - 1) : keys[r] # keys[p]}

\* kept holds, in order, the elements of all at the positions firsts.
KeepsFirsts(all, firsts, kept) ==
    /\ Len(kept) = Cardinality(firsts)
    /\ \A p \in firsts : kept[Cardinality({r \in firsts : r <= p})] = all[p]

ReturnedBy(call) == Concat([q \in 1..Len(call.queries) |-> call.queries[q].found])

MergedFirsts(all, kept) ==
    KeepsFirsts(all, FirstPositions([p \in 1..Len(all) |-> SongKey(all[p])]), kept)

\* C23: the events a fetch_playlist call merged are, in query order, the
\* events its hourly queries returned, each key at its first occurrence
\* (lowest hour, then earliest position in the page); the list it returns
\* holds exactly these events.
C23_NoLossInMerging ==
    \A c \in CallIds :
       /\ MergedFirsts(ReturnedBy(calls[c]), calls[c].merged)
       /\ Len(calls[c].result) = Len(calls[c].merged)
       /\ {calls[c].result[i] : i \in 1..Len(calls[c].result)}
            = {calls[c].merged[i] : i \in 1..Len(calls[c].merged)}

\* C23's case: two hours returned the same key, the earlier one with other
\* keys after it in its page.
C23_Witness ==
    \E c \in CallIds :
       \E q1, q2 \in 1..Len(calls[c].queries) :
          /\ q1 < q2
          /\ Len(calls[c].queries[q1].found) >= 2
          /\ SongKey(calls[c].queries[q1].found[1]) \in KeysFound(calls[c], q2)
          /\ Len(calls[c].merged) < Len(ReturnedBy(calls[c]))


\* C24, as claimed: whatever the clock does during a call, the hours it
\* queries are 0..23, or 0..h for the hour h the clock showed when the date
\* was found to be today (line 39).
C24_HoursFromOneReading ==
    \A c \in CallIds :
       \/ HoursAsked(calls[c]) = [i \in 1..HoursPerDay |-> i - 1]
       \/ /\ calls[c].is_today
          /\ HoursAsked(calls[c]) = [i \in 1..(calls[c].now39.hour + 1) |-> i - 1]


DaysMode == args.date = 0 /\ ~(args.start_date # 0 /\ args.end_date # 0) /\ args.days # 0

\* The calls made so far by a --days N command are for consecutive days, in
\* ascending order, ending N - 1 days after the first at the latest, the day
\* the command started on; each call for a day that is over made 24 queries,
\* for the hours 0..23, each call for the running day the queries for the
\* hours up to the one the clock showed.
DaysCollected ==
    DaysMode
    => /\ Len(calls) <= args.days
       /\ \A c \in CallIds :
             /\ calls[c].date = PlusDays(end_date, -(args.days - c))
             /\ HoursAsked(calls[c])
                  = [i \in 1..(IF calls[c].is_today THEN calls[c].now40.hour + 1
                               ELSE HoursPerDay) |-> i - 1]
             /\ c < args.days => ~calls[c].is_today
       /\ pc = "range" => current_date = PlusDays(end_date, -(args.days - Len(calls) - 1))
       /\ pc \in {"scraped", "closed", "reinserted"} => Len(calls) = args.days

C22_ExitZero ==
    (/\ exited # Null
     /\ exited.command \in {"scrape", "top-day", "top-week", "top-month",
                            "top-range", "top-artists", "top-songs", "stats"})
    => exited.status = 0


TrackRequest(artist, title) ==
    [method |-> "track.getTopTags", artist |-> artist, track |-> title]

\* The strategies as documented, without those whose arguments are those of
\* an earlier one: exact, cleaned title, primary artist, primary artist with
\* cleaned title, artist tags.
DocumentedRequests(artist, title, cleaned, primary) ==
    <<TrackRequest(artist, title)>>
        \o (IF cleaned # title THEN <<TrackRequest(artist, cleaned)>> ELSE <<>>)
        \o (IF primary # artist THEN <<TrackRequest(primary, title)>> ELSE <<>>)
        \o (IF primary # artist /\ cleaned # title
            THEN <<TrackRequest(primary, cleaned)>> ELSE <<>>)
        \o <<[method |-> "artist.getTopTags", artist |-> primary, track |-> Null]>>

\* A response holds a tag that counts.
Yields(response) ==
    /\ response.kind = "ok"
    /\ \E k \in 1..Len(IF response.single THEN <<response.tag>> ELSE response.tag) :
          (IF response.single THEN <<response.tag>> ELSE response.tag)[k].count > 0

AsDocumented(l, plan) ==
    /\ Len(l.requests) \in 1..5
    /\ l.requests = SubSeq(plan, 1, Len(l.requests))
    /\ \A j, k \in 1..Len(l.requests) : j # k => l.requests[j] # l.requests[k]
    /\ \A k \in 1..(Len(l.requests) - 1) : ~Yields(l.responses[k])
    /\ IF l.none
       THEN /\ Len(l.requests) = Len(plan)
            /\ ~Yields(l.responses[Len(l.requests)])
       ELSE /\ Yields(l.responses[Len(l.requests)])
            /\ l.genre = format_tags(TopTags(l.responses[Len(l.requests)]).names)

\* C29: lookup_genre makes its requests in the documented order, leaving
\* out a strategy whose arguments are those of an earlier one, at most 5 of
\* them and no two alike; it stops at the first that yields tags and returns
\* these, and returns None only after every strategy yielded nothing.
C29_StrategiesInOrder ==
    (lookup # Null /\ lookup.done)
    => AsDocumented(lookup,
                    DocumentedRequests(lookup.artist, lookup.title,
                                       clean_title(lookup.title),
                                       extract_primary_artist(lookup.artist)))

\* C29's case: the title cleans to itself, the artist has a primary artist,
\* and of the three requests left (exact, primary artist, artist tags) the
\* second yielded the tags returned, so that the third was not made.
C29_Witness ==
    /\ lookup # Null
    /\ lookup.done
    /\ clean_title(lookup.title) = lookup.title
    /\ extract_primary_artist(lookup.artist) # lookup.artist
    /\ Len(lookup.requests) = 2
    /\ ~lookup.none
    /\ lookup.genre = <<"a", ",", " ", "c", ",", " ", "d">>

\* C29's other case: five requests were made and none yielded anything.
C29_WitnessNone ==
    /\ lookup # Null
    /\ lookup.done
    /\ Len(lookup.requests) = 5
    /\ lookup.none

=============================================================================
